---- MODULE Spec2Model ----
(***************************************************************************)
(* Resilience and admission-control core of tongyi-wanx-mcp:               *)
(*   - ConcurrencyManager (priority admission queue)                       *)
(*   - CircuitBreaker     (three-state failure guard)                      *)
(* Each component is a group of variables with its own specification; a   *)
(* specification leaves the other group's variables unchanged.             *)
(***************************************************************************)
EXTENDS Integers, Sequences, FiniteSets, TLC

VARIABLES
    now,             \* Date.now(), shared clock
    activeRequests,  \* ConcurrencyManager.activeRequests
    maxConcurrent,   \* ConcurrencyManager.maxConcurrent
    priorityQueue,   \* ConcurrencyManager.priorityQueue : Seq(QueueItem)
    pc,              \* per caller: position in execute()/acquire()
    result,          \* per caller: how its acquire/execute promise settled
    releases,        \* per caller: number of release() calls made for it
    state,           \* CircuitBreaker.state
    failureCount,    \* CircuitBreaker.failureCount
    nextAttemptTime, \* CircuitBreaker.nextAttemptTime
    config,          \* CircuitBreaker.config : [failureThreshold, timeout]
    call,            \* per call slot: "idle", or "inflight" inside operation()
    admittedIn,      \* per call slot: breaker state in which operation() was invoked
    lastResult,      \* per call slot: how its latest execute() settled
    streak,          \* failed operations since the latest success or reset()
    lastOp,          \* latest settled operation(): what it produced, what execute() passed on
    rejection,       \* the error thrown by the latest rejected execute()
    rpc,             \* wrapAsync: position ("idle", "calling", "sleeping", "returned", "threw")
    maxRetries,      \* wrapAsync: parameter maxRetries
    attempt,         \* wrapAsync: loop variable attempt
    attempts,        \* wrapAsync: outcome of every invocation of operation(), in order
    delays,          \* wrapAsync: every backoff delay slept, in order
    rout,            \* wrapAsync: the value returned or the error thrown to the caller
    ppc,             \* waitForTaskCompletion: position
    pcfg,            \* waitForTaskCompletion: [maxWaitTime, pollInterval]
    startTime,       \* waitForTaskCompletion: startTime
    snapshot,        \* waitForTaskCompletion: result of the latest queryTask
    queries,         \* waitForTaskCompletion: number of queryTask calls issued
    sleeps,          \* waitForTaskCompletion: number of pollInterval sleeps
    pout,            \* waitForTaskCompletion: what the call returned or threw
    seen,            \* waitForTaskCompletion: every response queryTask returned, in order
    kind,            \* per caller of the service: which facade method it calls
    stage,           \* per caller of the service: position inside the admitted operation
    att              \* per caller of the service: wrapAsync attempt of its remote call

cmVars == <<activeRequests, maxConcurrent, priorityQueue, pc, result, releases>>
cbVars == <<state, failureCount, nextAttemptTime, config, call, admittedIn,
            lastResult, streak, lastOp, rejection>>
rtVars == <<rpc, maxRetries, attempt, attempts, delays, rout>>
plVars == <<ppc, pcfg, startTime, snapshot, queries, sleeps, pout, seen>>
fcVars == <<kind, stage, att>>
vars == <<now, cmVars, cbVars, rtVars, plVars, fcVars>>

----------------------------------------------------------------------------
(* Bounds of the model *)

\* number of acquire()/execute() calls made over a run; callers are numbered
\* in the order in which they call acquire()
MaxRequests == 5
\* largest clock value
MaxTime == 1
\* largest timeoutMs handed to cleanupTimeoutRequests
MaxTimeout == 0
\* largest maxConcurrent handed to adjustConcurrency
MaxLimit == 3

\* Config.MAX_CONCURRENT_REQUESTS, and the constructor's default
DefaultMaxConcurrent == 2

Callers == 1..MaxRequests

\* number of execute() calls of the breaker that can be in flight together
MaxInflight == 2
\* largest failureThreshold and largest timeout (cooldown, in clock ticks)
\* handed to the breaker's constructor
MaxThreshold == 2
MaxCooldown == 2
\* largest clock value in the breaker's runs, and the cap on failureCount
MaxClock == 4
MaxFailures == 3

Slots == 1..MaxInflight

\* largest maxRetries handed to wrapAsync
MaxRetries == 5

\* largest maxWaitTime handed to waitForTaskCompletion, in clock units
MaxWait == 3
\* largest pollInterval handed to waitForTaskCompletion
MaxPoll == 2
\* longest time one queryTask call takes to settle
MaxQueryTime == 2
\* longest time a setTimeout fires after its delay
MaxLag == 1
\* number of calls made to the methods of TongyiWanxService over a run: one
\* more than the service's manager has permits
MaxCalls == DefaultMaxConcurrent + 1

\* maxRetries of the create-task calls
CreateRetries == 2
\* maxRetries of queryTask
QueryRetries == 3

\* queryTask calls of one waitForTaskCompletion; a call whose sleeps last at
\* least one clock unit never needs more than maxWaitTime of them
MaxQueries == MaxWait

----------------------------------------------------------------------------
(* enum RequestPriority *)
LOW == 1
NORMAL == 2
HIGH == 3
CRITICAL == 4
RequestPriority == {LOW, NORMAL, HIGH, CRITICAL}

\* interface QueueItem: resolve/reject are the caller's promise, named by id
QueueItem(c, p, t) == [id |-> c, priority |-> p, timestamp |-> t]

Ids(q) == {q[i].id : i \in DOMAIN q}

----------------------------------------------------------------------------
(* ConcurrencyManager, pure parts *)

\* for (i = 0; i < length; i++) if (queue[i].priority < item.priority) { insertIndex = i; break }
InsertIndex(q, item) ==
    IF \E i \in DOMAIN q : q[i].priority < item.priority
    THEN CHOOSE i \in DOMAIN q :
            /\ q[i].priority < item.priority
            /\ \A j \in 1..(i-1) : ~(q[j].priority < item.priority)
    ELSE Len(q) + 1

\* a queue that ignores the priority: every item is pushed at the tail
insertAtTail(q, item) == Append(q, item)

\* the scan stops at the first item of lower or EQUAL priority
insertBeforeEqual(q, item) ==
    LET k == IF \E i \in DOMAIN q : q[i].priority <= item.priority
             THEN CHOOSE i \in DOMAIN q :
                     /\ q[i].priority <= item.priority
                     /\ \A j \in 1..(i-1) : ~(q[j].priority <= item.priority)
             ELSE Len(q) + 1
    IN SubSeq(q, 1, k-1) \o <<item>> \o SubSeq(q, k, Len(q))

\* priorityQueue.splice(insertIndex, 0, item)
insertByPriority(q, item) ==
    LET k == InsertIndex(q, item) IN
    SubSeq(q, 1, k-1) \o <<item>> \o SubSeq(q, k, Len(q))

\* a release() that hands the permit to the head without counting it
releaseUncounted(s) ==
    LET a == s.active - 1 IN
    IF Len(s.queue) > 0 /\ a < s.max
    THEN [s EXCEPT !.active = a,
                   !.queue = Tail(s.queue),
                   !.resolved = Append(s.resolved, Head(s.queue).id)]
    ELSE [s EXCEPT !.active = a]

\* a release() that gives its permit back without looking at the queue
releaseNoHandoff(s) ==
    [s EXCEPT !.active = s.active - 1]

\* a release() that dequeues the head without resolving its promise
releaseDropsHead(s) ==
    LET a == s.active - 1 IN
    IF Len(s.queue) > 0 /\ a < s.max
    THEN [s EXCEPT !.active = a + 1, !.queue = Tail(s.queue)]
    ELSE [s EXCEPT !.active = a]

\* release() on the manager state s = [active, max, queue, resolved];
\* resolved collects the ids whose promise release() resolves
release(s) ==
    LET a == s.active - 1 IN
    IF Len(s.queue) > 0 /\ a < s.max
    THEN [s EXCEPT !.active = a + 1,
                   !.queue = Tail(s.queue),
                   !.resolved = Append(s.resolved, Head(s.queue).id)]
    ELSE [s EXCEPT !.active = a]

\* while (queue.length > 0 && activeRequests < maxConcurrent) release()
RECURSIVE processQueuedRequests(_)
processQueuedRequests(s) ==
    IF Len(s.queue) > 0 /\ s.active < s.max
    THEN processQueuedRequests(release(s))
    ELSE s

\* a sweep that also evicts the requests whose wait EQUALS the timeout
RECURSIVE CleanupLoopInclusive(_, _, _, _)
CleanupLoopInclusive(s, i, t, timeoutMs) ==
    IF i < 1 THEN s
    ELSE LET request == s.queue[i] IN
         IF t - request.timestamp >= timeoutMs
         THEN CleanupLoopInclusive([s EXCEPT
                  !.queue = SubSeq(s.queue, 1, i-1) \o SubSeq(s.queue, i+1, Len(s.queue)),
                  !.rejected = s.rejected \cup {request.id}],
                i - 1, t, timeoutMs)
         ELSE CleanupLoopInclusive(s, i - 1, t, timeoutMs)

\* the backward loop of cleanupTimeoutRequests from index i down to 1:
\* splice out and reject every item with now - timestamp > timeoutMs
RECURSIVE CleanupLoop(_, _, _, _)
CleanupLoop(s, i, t, timeoutMs) ==
    IF i < 1 THEN s
    ELSE LET request == s.queue[i] IN
         IF t - request.timestamp > timeoutMs
         THEN CleanupLoop([s EXCEPT
                  !.queue = SubSeq(s.queue, 1, i-1) \o SubSeq(s.queue, i+1, Len(s.queue)),
                  !.rejected = s.rejected \cup {request.id}],
                i - 1, t, timeoutMs)
         ELSE CleanupLoop(s, i - 1, t, timeoutMs)

CM == [active |-> activeRequests, max |-> maxConcurrent,
       queue |-> priorityQueue, resolved |-> <<>>, rejected |-> {}]

Range(f) == {f[i] : i \in DOMAIN f}

----------------------------------------------------------------------------
(* ConcurrencyManager, operations *)

\* acquire(priority): the c-th call of acquire
Acquire(c, p) ==
    /\ pc[c] = "idle"
    /\ \A d \in Callers : d < c => pc[d] # "idle"
    /\ IF activeRequests < maxConcurrent
       THEN /\ activeRequests' = activeRequests + 1
            /\ pc' = [pc EXCEPT ![c] = "running"]
            /\ UNCHANGED priorityQueue
       ELSE /\ priorityQueue' = insertByPriority(priorityQueue, QueueItem(c, p, now))
            /\ pc' = [pc EXCEPT ![c] = "queued"]
            /\ UNCHANGED activeRequests
    /\ UNCHANGED <<now, maxConcurrent, result, releases, cbVars, rtVars, plVars, fcVars>>

\* caller c calls release(): the manager's part of the step
CallRelease(c) ==
    LET s == release(CM) IN
    /\ activeRequests' = s.active
    /\ priorityQueue' = s.queue
    /\ pc' = [d \in Callers |->
                 IF d = c THEN "done"
                 ELSE IF d \in Range(s.resolved) THEN "running"
                 ELSE pc[d]]
    /\ releases' = [releases EXCEPT ![c] = @ + 1]

\* an execute() that releases after the await instead of in a finally block
FinishWithoutFinally(c, o) ==
    /\ pc[c] = "running"
    /\ IF o = "returned"
       THEN CallRelease(c)
       ELSE /\ pc' = [pc EXCEPT ![c] = "done"]
            /\ UNCHANGED <<activeRequests, priorityQueue, releases>>
    /\ result' = [result EXCEPT ![c] = o]
    /\ UNCHANGED <<now, maxConcurrent, cbVars, rtVars, plVars, fcVars>>

\* execute(): operation() settles with outcome o (it returns, or it throws: an
\* error of the remote call, a CircuitOpen rejection or the last error of an
\* exhausted retry loop all reach execute as a throw), then finally { release() }
Finish(c, o) ==
    /\ pc[c] = "running"
    /\ CallRelease(c)
    /\ result' = [result EXCEPT ![c] = o]
    /\ UNCHANGED <<now, maxConcurrent, cbVars, rtVars, plVars, fcVars>>

\* release() called once more for a permit that caller c has already released
ReleaseAgain(c) ==
    /\ pc[c] = "done"
    /\ releases[c] = 1
    /\ CallRelease(c)
    /\ UNCHANGED <<now, maxConcurrent, result, cbVars, rtVars, plVars, fcVars>>

\* adjustConcurrency(newMaxConcurrent)
adjustConcurrency(n) ==
    /\ IF n > 0 /\ n # maxConcurrent
       THEN LET s == IF n > maxConcurrent
                     THEN processQueuedRequests([CM EXCEPT !.max = n])
                     ELSE [CM EXCEPT !.max = n]
            IN /\ maxConcurrent' = n
               /\ activeRequests' = s.active
               /\ priorityQueue' = s.queue
               /\ pc' = [d \in Callers |->
                            IF d \in Range(s.resolved) THEN "running" ELSE pc[d]]
       ELSE UNCHANGED <<maxConcurrent, activeRequests, priorityQueue, pc>>
    /\ UNCHANGED <<now, result, releases, cbVars, rtVars, plVars, fcVars>>

\* cleanupTimeoutRequests(timeoutMs)
Cleanup(timeoutMs) ==
    /\ LET s == CleanupLoop(CM, Len(priorityQueue), now, timeoutMs) IN
       /\ priorityQueue' = s.queue
       /\ pc' = [d \in Callers |-> IF d \in s.rejected THEN "done" ELSE pc[d]]
       /\ result' = [d \in Callers |->
                        IF d \in s.rejected THEN "QueueTimeout" ELSE result[d]]
    /\ UNCHANGED <<now, activeRequests, maxConcurrent, releases, cbVars, rtVars, plVars, fcVars>>

\* a destroy() whose rejected callers run execute's finally block, as they
\* would if acquire were awaited inside the try
DestroyThenRelease ==
    /\ priorityQueue # <<>>
    /\ priorityQueue' = <<>>
    /\ pc' = [d \in Callers |-> IF d \in Ids(priorityQueue) THEN "done" ELSE pc[d]]
    /\ result' = [d \in Callers |->
                     IF d \in Ids(priorityQueue) THEN "Destroyed" ELSE result[d]]
    /\ activeRequests' = activeRequests - Len(priorityQueue)
    /\ releases' = [d \in Callers |->
                       IF d \in Ids(priorityQueue) THEN releases[d] + 1 ELSE releases[d]]
    /\ UNCHANGED <<now, maxConcurrent, cbVars, rtVars, plVars, fcVars>>

\* destroy(): reject every queued request, empty the queue
Destroy ==
    /\ priorityQueue # <<>>
    /\ priorityQueue' = <<>>
    /\ pc' = [d \in Callers |-> IF d \in Ids(priorityQueue) THEN "done" ELSE pc[d]]
    /\ result' = [d \in Callers |->
                     IF d \in Ids(priorityQueue) THEN "Destroyed" ELSE result[d]]
    /\ UNCHANGED <<now, activeRequests, maxConcurrent, releases, cbVars, rtVars, plVars, fcVars>>

\* the clock advances
Tick ==
    /\ now < MaxTime
    /\ now' = now + 1
    /\ UNCHANGED <<cmVars, cbVars, rtVars, plVars, fcVars>>

----------------------------------------------------------------------------
(* Specification of the admission controller with a fixed maxConcurrent and *)
(* one release per granted permit (every caller goes through execute)       *)

\* originalError of an error built without one
NoCause == [name |-> "none"]

\* new TongyiError(code, message, statusCode, originalError, retryable)
TongyiError(code, statusCode, originalError, retryable) ==
    [tongyi |-> TRUE, code |-> code, statusCode |-> statusCode,
     cause |-> originalError, retryable |-> retryable]

\* the error execute() throws for a call it rejects
CircuitOpenError == TongyiError("CIRCUIT_BREAKER_OPEN", 0, NoCause, FALSE)

\* no call has been rejected yet
NoRejection == TongyiError("none", 0, NoCause, FALSE)

\* new ConcurrencyManager(maxConcurrent), nobody has called it yet
NewManager(m) ==
    /\ activeRequests = 0
    /\ maxConcurrent = m
    /\ priorityQueue = <<>>
    /\ pc = [c \in Callers |-> "idle"]
    /\ result = [c \in Callers |-> "none"]
    /\ releases = [c \in Callers |-> 0]

\* new CircuitBreaker(name, config), nobody has called it yet
NewBreaker(cfg) ==
    /\ state = "CLOSED"
    /\ failureCount = 0
    /\ nextAttemptTime = 0
    /\ config = cfg
    /\ call = [k \in Slots |-> "idle"]
    /\ admittedIn = [k \in Slots |-> "none"]
    /\ lastResult = [k \in Slots |-> "none"]
    /\ streak = 0
    /\ lastOp = [out |-> [threw |-> FALSE, what |-> "none"],
                 got |-> [threw |-> FALSE, what |-> "none"]]
    /\ rejection = NoRejection

\* no wrapAsync call has been made
NoRetry ==
    /\ rpc = "idle"
    /\ maxRetries = 0
    /\ attempt = 0
    /\ attempts = <<>>
    /\ delays = <<>>
    /\ rout = "none"

\* no waitForTaskCompletion call has been made
NoPoller ==
    /\ ppc = "idle"
    /\ pcfg = [maxWaitTime |-> 0, pollInterval |-> 0]
    /\ startTime = 0
    /\ snapshot = [task_status |-> "none", seq |-> 0, at |-> 0]
    /\ queries = 0
    /\ sleeps = 0
    /\ pout = [threw |-> FALSE, what |-> [task_status |-> "none", seq |-> 0, at |-> 0]]
    /\ seen = <<>>

\* no method of TongyiWanxService has been called
NoService ==
    /\ kind = [c \in Callers |-> "none"]
    /\ stage = [c \in Callers |-> "none"]
    /\ att = [c \in Callers |-> 0]

InitCM ==
    /\ now = 0
    /\ \E m \in {1, DefaultMaxConcurrent} : NewManager(m)
    /\ NewBreaker([failureThreshold |-> 1, timeout |-> 1])
    /\ NoRetry /\ NoPoller /\ NoService

NextCM ==
    \/ \E c \in Callers, p \in RequestPriority : Acquire(c, p)
    \/ \E c \in Callers, o \in {"returned", "threw"} : Finish(c, o)
    \/ \E t \in 0..MaxTimeout : Cleanup(t)
    \/ Destroy
    \/ Tick

SpecCM == InitCM /\ [][NextCM]_vars

\* the same controller, with callers that also call release() a second time
NextCMMisuse ==
    \/ NextCM
    \/ \E c \in Callers : ReleaseAgain(c)

SpecCMMisuse == InitCM /\ [][NextCMMisuse]_vars

\* the same controller, resized at run time
NextCMResize ==
    \/ NextCM
    \/ \E n \in 0..MaxLimit : adjustConcurrency(n)

SpecCMResize == InitCM /\ [][NextCMResize]_vars

----------------------------------------------------------------------------
(* Admission controller: properties *)

\* the callers that hold a granted and not yet released permit
Holders == {c \in Callers : pc[c] = "running"}

\* the callers granted in this step
GrantedNow == {c \in Callers : pc[c] # "running" /\ pc'[c] = "running"}

ItemOf(c) == priorityQueue[CHOOSE i \in DOMAIN priorityQueue : priorityQueue[i].id = c]

\* C1 (bounded concurrency): with a fixed maxConcurrent, under any interleaving
\* of acquire calls of any priority, one release per granted permit and
\* timeout sweeps, the number of callers holding a granted, not yet released
\* permit never exceeds maxConcurrent.
C1_BoundedConcurrency == Cardinality(Holders) <= maxConcurrent

\* C1 witness: the controller is at capacity 2 with two more requests queued
\* after an earlier permit has been released
C1_Witness ==
    /\ maxConcurrent = 2
    /\ Cardinality(Holders) = 2
    /\ Len(priorityQueue) >= 2
    /\ \E c \in Callers : releases[c] = 1

PriorityGrant ==
    \A c \in GrantedNow : pc[c] = "queued" =>
        \A i \in DOMAIN priorityQueue : priorityQueue[i].priority <= ItemOf(c).priority

PrioritySorted ==
    \A i, j \in DOMAIN priorityQueue :
        i < j => priorityQueue[i].priority >= priorityQueue[j].priority

\* C2 (priority ordering): whenever a release grants a permit to a queued
\* request, the request granted has the highest priority among all requests
\* queued at that moment; the queue is kept in non-increasing priority order,
\* so requests queued LOW, HIGH, NORMAL are granted HIGH, NORMAL, LOW.
C2_PriorityOrdering == []PrioritySorted /\ [][PriorityGrant]_vars

\* C2 witness: with one permit, caller 2 came before callers 3 and 4, yet
\* caller 3 was granted first and the queue now holds NORMAL (4) before LOW (2)
C2_Witness ==
    /\ maxConcurrent = 1
    /\ pc[1] = "done" /\ pc[3] = "running"
    /\ Len(priorityQueue) = 2
    /\ priorityQueue[1].id = 4 /\ priorityQueue[1].priority = NORMAL
    /\ priorityQueue[2].id = 2 /\ priorityQueue[2].priority = LOW

\* callers are numbered in arrival order: of two queued requests of the same
\* priority the one that arrived first is nearer the head
FifoSorted ==
    \A i, j \in DOMAIN priorityQueue :
        (i < j /\ priorityQueue[i].priority = priorityQueue[j].priority)
            => priorityQueue[i].id < priorityQueue[j].id

\* a request granted from the queue is the earliest of its priority in it
FifoGrant ==
    \A c \in GrantedNow : pc[c] = "queued" =>
        \A i \in DOMAIN priorityQueue :
            priorityQueue[i].priority = ItemOf(c).priority => c <= priorityQueue[i].id

\* a new arrival is granted at once only when nobody is queued
NoOvertaking ==
    \A c \in GrantedNow : pc[c] = "idle" => priorityQueue = <<>>

\* five callers arrived at a controller of capacity 2 before any release or
\* eviction: the first two run, the other three are queued
FiveArrivals ==
    (/\ maxConcurrent = 2
     /\ \A c \in 1..5 : pc[c] \in {"queued", "running"}
     /\ \A c \in Callers : c > 5 => pc[c] = "idle")
        => /\ Holders = {1, 2}
           /\ Ids(priorityQueue) = {3, 4, 5}
           /\ (\A i \in DOMAIN priorityQueue : priorityQueue[i].priority = NORMAL)
                 => [i \in DOMAIN priorityQueue |-> priorityQueue[i].id] = <<3, 4, 5>>

\* C3 (FIFO within equal priority): of two queued requests of the same
\* priority the one enqueued earlier is granted first, whatever is enqueued,
\* granted or swept in between; with maxConcurrent = 2 and five NORMAL callers
\* arriving together, two are granted at once, three queue, and the grant order
\* is the arrival order.
C3_FifoWithinPriority ==
    /\ [](FifoSorted /\ FiveArrivals)
    /\ [][FifoGrant /\ NoOvertaking]_vars

\* C3 witness: capacity 2, callers 1 and 2 have released, callers 3 and 4 hold
\* their permits and caller 5, at NORMAL priority, is still queued
C3_Witness ==
    /\ maxConcurrent = 2
    /\ releases[1] = 1 /\ releases[2] = 1
    /\ pc[3] = "running" /\ pc[4] = "running" /\ pc[5] = "queued"
    /\ priorityQueue[1].priority = NORMAL

\* C4 (idempotent release), as claimed: a release for a permit that was
\* already released is a no-op or an error; it changes neither activeRequests
\* nor the queue and grants nothing.
C4_IdempotentRelease ==
    [][(\E c \in Callers : ReleaseAgain(c)) =>
          /\ activeRequests' = activeRequests
          /\ priorityQueue' = priorityQueue
          /\ GrantedNow = {}]_vars

\* C5 (resize upward), as claimed: adjustConcurrency(n) with n above the
\* current maxConcurrent grants queued requests from the head, in queue
\* order, until the queue is empty or the holders number n; afterwards at
\* most n callers hold a permit.
C5_ResizeUpward ==
    [][\A n \in 1..MaxLimit : (n > maxConcurrent /\ adjustConcurrency(n)) =>
          /\ Cardinality(Holders') <= n
          /\ priorityQueue' = <<>> \/ Cardinality(Holders') = n
          /\ \E k \in 0..Len(priorityQueue) :
                /\ priorityQueue' = SubSeq(priorityQueue, k + 1, Len(priorityQueue))
                /\ GrantedNow = {priorityQueue[i].id : i \in 1..k}]_vars

Expired(r, timeoutMs) == now - r.timestamp > timeoutMs

\* C6 (timeout sweep): cleanupTimeoutRequests(t) removes from the queue
\* exactly the requests whose wait exceeds t, fails each with QueueTimeout,
\* grants no permit, leaves activeRequests unchanged and keeps the remaining
\* requests in their previous relative order.
C6_TimeoutSweep ==
    [][\A t \in 0..MaxTimeout : Cleanup(t) =>
          /\ priorityQueue' = SelectSeq(priorityQueue, LAMBDA r : ~Expired(r, t))
          /\ \A i \in DOMAIN priorityQueue :
                Expired(priorityQueue[i], t) =>
                    /\ pc'[priorityQueue[i].id] = "done"
                    /\ result'[priorityQueue[i].id] = "QueueTimeout"
          /\ \A c \in Callers :
                ~(\E i \in DOMAIN priorityQueue :
                     priorityQueue[i].id = c /\ Expired(priorityQueue[i], t))
                  => pc'[c] = pc[c] /\ result'[c] = result[c]
          /\ activeRequests' = activeRequests
          /\ GrantedNow = {}]_vars

\* C6 witness: a sweep has evicted a request and left a younger one queued
C6_Witness ==
    /\ \E c \in Callers : result[c] = "QueueTimeout"
    /\ \E i \in DOMAIN priorityQueue : priorityQueue[i].timestamp = now
    /\ activeRequests = maxConcurrent

\* C7 (scoped release): execute releases the permit exactly once on every
\* exit path of the operation, whether it returns or throws; before that exit
\* it has not released; once every execute call has completed, activeRequests
\* is 0.
C7_ScopedRelease ==
    /\ \A c \in Callers :
          /\ result[c] \in {"returned", "threw"} => releases[c] = 1
          /\ pc[c] \in {"idle", "queued", "running"} => releases[c] = 0
    /\ (\A c \in Callers : pc[c] \in {"idle", "done"}) => activeRequests = 0

\* C7 witness: every call has completed, some by returning, some by throwing
\* and some by being evicted from the queue
C7_Witness ==
    /\ \A c \in Callers : pc[c] = "done"
    /\ \E c \in Callers : result[c] = "returned"
    /\ \E c \in Callers : result[c] = "threw"
    /\ \E c \in Callers : result[c] = "QueueTimeout"

----------------------------------------------------------------------------
(* CircuitBreaker *)

CB == [state |-> state, failureCount |-> failureCount,
       nextAttemptTime |-> nextAttemptTime]

\* a head of execute() that counts a rejection as one more failure
AdmissionCountsRejection(b, t) ==
    IF b.state = "OPEN"
    THEN IF t < b.nextAttemptTime
         THEN [breaker |-> [b EXCEPT !.failureCount = @ + 1], invoked |-> FALSE,
               error |-> CircuitOpenError]
         ELSE [breaker |-> [b EXCEPT !.state = "HALF_OPEN"], invoked |-> TRUE,
               error |-> NoRejection]
    ELSE [breaker |-> b, invoked |-> TRUE, error |-> NoRejection]

\* a head of execute() that never lets a call through once the breaker is OPEN
AdmissionStaysOpen(b, t) ==
    IF b.state = "OPEN"
    THEN [breaker |-> b, invoked |-> FALSE, error |-> CircuitOpenError]
    ELSE [breaker |-> b, invoked |-> TRUE, error |-> NoRejection]

\* the head of execute(): in OPEN before nextAttemptTime the call is rejected
\* with CIRCUIT_BREAKER_OPEN (retryable = false); in OPEN at or after it the
\* breaker goes HALF_OPEN; in every other case operation() is invoked
Admission(b, t) ==
    IF b.state = "OPEN"
    THEN IF t < b.nextAttemptTime
         THEN [breaker |-> b, invoked |-> FALSE, error |-> CircuitOpenError]
         ELSE [breaker |-> [b EXCEPT !.state = "HALF_OPEN"], invoked |-> TRUE,
               error |-> NoRejection]
    ELSE [breaker |-> b, invoked |-> TRUE, error |-> NoRejection]

\* an onSuccess() that clears the counter and leaves the state as it is
onSuccessKeepState(b) == [b EXCEPT !.failureCount = 0]

\* an onSuccess() that closes the breaker and keeps the failures counted so far
onSuccessKeepCount(b) == [b EXCEPT !.state = "CLOSED"]

\* onSuccess(): failureCount = 0; state = CLOSED
onSuccess(b) == [b EXCEPT !.failureCount = 0, !.state = "CLOSED"]

\* an onFailure() that opens only above the threshold
onFailureAbove(b, cfg, t) ==
    LET n == b.failureCount + 1 IN
    IF n > cfg.failureThreshold
    THEN [b EXCEPT !.failureCount = n, !.state = "OPEN",
                   !.nextAttemptTime = t + cfg.timeout]
    ELSE [b EXCEPT !.failureCount = n]

\* an onFailure() that opens one failure short of the threshold
onFailureOneShort(b, cfg, t) ==
    LET n == b.failureCount + 1 IN
    IF n >= cfg.failureThreshold - 1
    THEN [b EXCEPT !.failureCount = n, !.state = "OPEN",
                   !.nextAttemptTime = t + cfg.timeout]
    ELSE [b EXCEPT !.failureCount = n]

\* onFailure(): failureCount++; at the threshold, state = OPEN and
\* nextAttemptTime = Date.now() + config.timeout
onFailure(b, cfg, t) ==
    LET n == b.failureCount + 1 IN
    IF n >= cfg.failureThreshold
    THEN [b EXCEPT !.failureCount = n, !.state = "OPEN",
                   !.nextAttemptTime = t + cfg.timeout]
    ELSE [b EXCEPT !.failureCount = n]

SetBreaker(b) ==
    /\ state' = b.state
    /\ failureCount' = b.failureCount
    /\ nextAttemptTime' = b.nextAttemptTime

\* execute(operation) is called on slot k, up to the await of operation()
Call(k) ==
    /\ call[k] = "idle"
    /\ \A j \in Slots : j < k => call[j] = "inflight"
    /\ LET a == Admission(CB, now) IN
       /\ SetBreaker(a.breaker)
       /\ IF a.invoked
          THEN /\ call' = [call EXCEPT ![k] = "inflight"]
               /\ admittedIn' = [admittedIn EXCEPT ![k] = a.breaker.state]
               /\ lastResult' = [lastResult EXCEPT ![k] = "none"]
               /\ UNCHANGED rejection
          ELSE /\ lastResult' = [lastResult EXCEPT ![k] = "CircuitOpen"]
               /\ admittedIn' = [admittedIn EXCEPT ![k] = "none"]
               /\ rejection' = a.error
               /\ UNCHANGED call
    /\ UNCHANGED <<now, cmVars, rtVars, plVars, fcVars, config, streak, lastOp>>

\* what a promise settles with: a returned value or a thrown error
Returned(v) == [threw |-> FALSE, what |-> v]
Thrown(e) == [threw |-> TRUE, what |-> e]

\* values operation() may return ("errorBody": a response that carries an error
\* code in its body but is returned, not thrown) and errors it may throw
OpValues == {"task", "errorBody"}
OpErrors == {"SERVER_ERROR", "AUTH_ERROR"}

\* a breaker that inspects the returned value to decide success
SettleByValue(b, o, cfg, t) ==
    [breaker |-> IF o.threw \/ o.what = "errorBody"
                 THEN onFailure(b, cfg, t) ELSE onSuccess(b),
     passed |-> o]

\* try { result = await operation(); onSuccess(); return result }
\* catch (error) { onFailure(); throw error }
Settle(b, o, cfg, t) ==
    [breaker |-> IF o.threw THEN onFailure(b, cfg, t) ELSE onSuccess(b),
     passed |-> o]

\* operation() of slot k returns: onSuccess(), the result is returned
Succeed(k) ==
    /\ call[k] = "inflight"
    /\ \E v \in OpValues :
          LET r == Settle(CB, Returned(v), config, now) IN
          /\ SetBreaker(r.breaker)
          /\ lastOp' = [out |-> Returned(v), got |-> r.passed]
    /\ call' = [call EXCEPT ![k] = "idle"]
    /\ lastResult' = [lastResult EXCEPT ![k] = "ok"]
    /\ streak' = 0
    /\ UNCHANGED <<now, cmVars, rtVars, plVars, fcVars, config, admittedIn, rejection>>

\* operation() of slot k throws: onFailure(), the error is rethrown
Fail(k) ==
    /\ call[k] = "inflight"
    /\ failureCount < MaxFailures
    /\ \E e \in OpErrors :
          LET r == Settle(CB, Thrown(e), config, now) IN
          /\ SetBreaker(r.breaker)
          /\ lastOp' = [out |-> Thrown(e), got |-> r.passed]
    /\ call' = [call EXCEPT ![k] = "idle"]
    /\ lastResult' = [lastResult EXCEPT ![k] = "failed"]
    /\ streak' = streak + 1
    /\ UNCHANGED <<now, cmVars, rtVars, plVars, fcVars, config, admittedIn, rejection>>

\* reset(): manual reset
Reset ==
    /\ state # "CLOSED" \/ failureCount # 0 \/ nextAttemptTime # 0
    /\ state' = "CLOSED"
    /\ failureCount' = 0
    /\ nextAttemptTime' = 0
    /\ streak' = 0
    /\ UNCHANGED <<now, cmVars, rtVars, plVars, fcVars, config, call, admittedIn, lastResult,
                   lastOp, rejection>>

\* the clock advances
TickCB ==
    /\ now < MaxClock
    /\ now' = now + 1
    /\ UNCHANGED <<cmVars, cbVars, rtVars, plVars, fcVars>>

InitCB ==
    /\ now = 0
    /\ NewManager(DefaultMaxConcurrent)
    /\ \E th \in 1..MaxThreshold, cd \in 1..MaxCooldown :
          NewBreaker([failureThreshold |-> th, timeout |-> cd])
    /\ NoRetry /\ NoPoller /\ NoService

NextCB ==
    \/ \E k \in Slots : Call(k)
    \/ \E k \in Slots : Succeed(k)
    \/ \E k \in Slots : Fail(k)
    \/ Reset
    \/ TickCB

SpecCB == InitCB /\ [][NextCB]_vars

\* the breaker left to itself: no manual reset()
NextCBAuto ==
    \/ \E k \in Slots : Call(k)
    \/ \E k \in Slots : Succeed(k)
    \/ \E k \in Slots : Fail(k)
    \/ TickCB

SpecCBAuto == InitCB /\ [][NextCBAuto]_vars

\* operation() of slot k throws, early enough in the run for the cooldown this
\* failure may start to elapse within the clock's range
FailEarly(k) ==
    /\ now + config.timeout <= MaxClock
    /\ Fail(k)

\* the service calls its breaker under a permit of its manager, so no more
\* than DefaultMaxConcurrent calls are inside execute() at a time
PermitSlots == {k \in Slots : k <= DefaultMaxConcurrent}

NextCBLive ==
    \/ \E k \in PermitSlots : Call(k)
    \/ \E k \in PermitSlots : Succeed(k)
    \/ \E k \in PermitSlots : FailEarly(k)
    \/ TickCB

\* the clock keeps advancing, execute calls keep arriving and an operation
\* that does not fail returns; failures stop at some point of the run
SpecCBLive ==
    /\ InitCB /\ [][NextCBLive]_vars
    /\ WF_vars(TickCB)
    /\ \A k \in PermitSlots : WF_vars(Call(k)) /\ WF_vars(Succeed(k))

----------------------------------------------------------------------------
(* Circuit breaker: properties *)

\* the calls whose operation() is running and was invoked in HALF_OPEN
Probes == {k \in Slots : call[k] = "inflight" /\ admittedIn[k] = "HALF_OPEN"}

InCooldown == streak >= config.failureThreshold /\ now < nextAttemptTime

\* the failure that completes a run of failureThreshold failures opens the
\* breaker for a cooldown counted from that failure
OpensAtThreshold ==
    (streak' > streak /\ streak' >= config.failureThreshold)
        => state' = "OPEN" /\ nextAttemptTime' = now + config.timeout

\* a call made during the cooldown is rejected and its operation not invoked
RejectsInCooldown ==
    \A k \in Slots : (InCooldown /\ Call(k))
        => /\ lastResult'[k] = "CircuitOpen"
           /\ call'[k] = "idle"
           /\ UNCHANGED <<state, failureCount, nextAttemptTime>>

\* C8 (circuit opens): after failureThreshold consecutive failed execute
\* calls the breaker is OPEN, and every execute call made while
\* now < nextAttemptTime is rejected with CircuitOpen without invoking its
\* operation.
C8_CircuitOpens ==
    /\ [](InCooldown => state = "OPEN")
    /\ [][OpensAtThreshold /\ RejectsInCooldown]_vars

\* C8 witness: threshold 2 was reached, the breaker is OPEN in its cooldown
\* and the latest call was rejected
C8_Witness ==
    /\ config.failureThreshold = 2
    /\ streak = 2
    /\ state = "OPEN" /\ now < nextAttemptTime
    /\ \E k \in Slots : lastResult[k] = "CircuitOpen"

\* C9 (single probe), as claimed: while a probe admitted in HALF_OPEN is in
\* flight no other call has its operation invoked, so at most one call
\* invoked in HALF_OPEN is in flight at any time.
C9_SingleProbe == Cardinality(Probes) <= 1

ProbeSuccessCloses ==
    \A k \in Slots : (admittedIn[k] = "HALF_OPEN" /\ Succeed(k))
        => state' = "CLOSED" /\ failureCount' = 0

AdmitsWhenClosed ==
    \A k \in Slots : (state = "CLOSED" /\ Call(k))
        => call'[k] = "inflight" /\ state' = "CLOSED"

\* C10 (probe success closes): when the call admitted in HALF_OPEN succeeds
\* the breaker becomes CLOSED with failureCount 0, and calls made while it is
\* CLOSED are admitted.
C10_ProbeSuccessCloses == [][ProbeSuccessCloses /\ AdmitsWhenClosed]_vars

\* C10 witness: a probe admitted in HALF_OPEN has succeeded, the breaker is
\* CLOSED with failureCount 0 and a later call is running, admitted in CLOSED
C10_Witness ==
    /\ state = "CLOSED" /\ failureCount = 0
    /\ \E k \in Slots : call[k] = "idle" /\ lastResult[k] = "ok"
                        /\ admittedIn[k] = "HALF_OPEN"
    /\ \E k \in Slots : call[k] = "inflight" /\ admittedIn[k] = "CLOSED"

\* an admitted call passes on exactly what its operation produced
PassesOn == lastOp.got = lastOp.out

\* a returned value, whatever it is, counts as a success and a throw as a
\* failure, and the breaker is updated in the step that settles the call
DecidedByThrow ==
    \A k \in Slots :
        /\ Succeed(k) => /\ failureCount' = 0 /\ state' = "CLOSED"
                         /\ ~lastOp'.got.threw
        /\ Fail(k) => /\ failureCount' = failureCount + 1
                      /\ lastOp'.got.threw

\* C11 (breaker error transparency): for an admitted call execute returns
\* exactly the operation's result when it does not throw and rethrows exactly
\* its error when it throws, the breaker state being updated before the
\* outcome is passed on; success or failure is decided by whether the
\* operation throws, never by the returned value.
C11_ErrorTransparency == []PassesOn /\ [][DecidedByThrow]_vars

\* C11 witness: an operation returned a body that carries an error code; the
\* call passed it on as its result and the breaker counted a success
C11_Witness ==
    /\ lastOp.out = Returned("errorBody") /\ lastOp.got = Returned("errorBody")
    /\ state = "CLOSED" /\ failureCount = 0
    /\ \E k \in Slots : lastResult[k] = "ok" /\ admittedIn[k] = "HALF_OPEN"

----------------------------------------------------------------------------
(* ErrorHandler: error classification and the retry wrapper *)

\* a thrown value that is not a TongyiError (a TypeError of fetch, ...)
PlainError(name) ==
    [tongyi |-> FALSE, code |-> name, statusCode |-> 0,
     cause |-> NoCause, retryable |-> FALSE]

\* a classification that lets authentication failures be retried
handleApiErrorAuthRetryable(status) ==
    IF status = 401 \/ status = 403 THEN TongyiError("AUTH_ERROR", status, NoCause, TRUE)
    ELSE IF status = 429 THEN TongyiError("RATE_LIMIT", status, NoCause, TRUE)
    ELSE IF status = 400 THEN TongyiError("VALIDATION_ERROR", status, NoCause, FALSE)
    ELSE IF status >= 500 THEN TongyiError("SERVER_ERROR", status, NoCause, TRUE)
    ELSE IF status >= 400 THEN TongyiError("CLIENT_ERROR", status, NoCause, FALSE)
    ELSE TongyiError("NETWORK_ERROR", status, NoCause, TRUE)

\* handleApiError(response, context): the error it throws for an HTTP status
handleApiError(status) ==
    IF status = 401 \/ status = 403 THEN TongyiError("AUTH_ERROR", status, NoCause, FALSE)
    ELSE IF status = 429 THEN TongyiError("RATE_LIMIT", status, NoCause, TRUE)
    ELSE IF status = 400 THEN TongyiError("VALIDATION_ERROR", status, NoCause, FALSE)
    ELSE IF status >= 500 THEN TongyiError("SERVER_ERROR", status, NoCause, TRUE)
    ELSE IF status >= 400 THEN TongyiError("CLIENT_ERROR", status, NoCause, FALSE)
    ELSE TongyiError("NETWORK_ERROR", status, NoCause, TRUE)

\* handleTongyiApiError(result, context): the error it throws for the business
\* code of a response body; the body is kept as originalError
handleTongyiApiError(code) ==
    IF code \in {"InvalidApiKey", "Forbidden"}
    THEN TongyiError("AUTH_ERROR", 0, [name |-> code], FALSE)
    ELSE IF code \in {"Throttling", "FlowControl"}
    THEN TongyiError("RATE_LIMIT", 0, [name |-> code], TRUE)
    ELSE IF code \in {"InvalidParameter", "ValidationFailed"}
    THEN TongyiError("VALIDATION_ERROR", 0, [name |-> code], FALSE)
    ELSE IF code \in {"InternalError", "ServiceUnavailable"}
    THEN TongyiError("SERVER_ERROR", 0, [name |-> code], TRUE)
    ELSE TongyiError("API_ERROR", 0, [name |-> code], FALSE)

Min(a, b) == IF a < b THEN a ELSE b

\* a backoff without the 10 s cap
BackoffUncapped(n) == 1000 * 2^n

\* Math.min(1000 * Math.pow(2, attempt), 10000)
Backoff(n) == Min(1000 * 2^n, 10000)

\* a loop that retries whatever the error's retryable flag says
wrapAsyncStepAnyError(o, n, maxR) ==
    IF ~o.threw THEN [next |-> "returned", out |-> o, delay |-> 0]
    ELSE IF o.what.tongyi /\ n < maxR
    THEN [next |-> "sleeping", out |-> o, delay |-> Backoff(n)]
    ELSE IF o.what.tongyi THEN [next |-> "threw", out |-> o, delay |-> 0]
    ELSE [next |-> "threw", delay |-> 0,
          out |-> Thrown(TongyiError("UNKNOWN_ERROR", 0, o.what, FALSE))]

\* a loop that also retries what is not a TongyiError while attempts remain
wrapAsyncStepRetriesUnknown(o, n, maxR) ==
    IF ~o.threw THEN [next |-> "returned", out |-> o, delay |-> 0]
    ELSE IF (~o.what.tongyi \/ o.what.retryable) /\ n < maxR
    THEN [next |-> "sleeping", out |-> o, delay |-> Backoff(n)]
    ELSE IF o.what.tongyi THEN [next |-> "threw", out |-> o, delay |-> 0]
    ELSE [next |-> "threw", delay |-> 0,
          out |-> Thrown(TongyiError("UNKNOWN_ERROR", 0, o.what, FALSE))]

\* a loop that retries once more than maxRetries allows
wrapAsyncStepOneMore(o, n, maxR) ==
    IF ~o.threw THEN [next |-> "returned", out |-> o, delay |-> 0]
    ELSE IF o.what.tongyi /\ o.what.retryable /\ n <= maxR
    THEN [next |-> "sleeping", out |-> o, delay |-> Backoff(n)]
    ELSE IF o.what.tongyi THEN [next |-> "threw", out |-> o, delay |-> 0]
    ELSE [next |-> "threw", delay |-> 0,
          out |-> Thrown(TongyiError("UNKNOWN_ERROR", 0, o.what, FALSE))]

\* a loop that, after a success on a retry, leaves the loop and throws lastError
wrapAsyncStepThrowsLast(o, n, maxR) ==
    IF ~o.threw
    THEN IF n = 0 THEN [next |-> "returned", out |-> o, delay |-> 0]
         ELSE [next |-> "threw", delay |-> 0,
               out |-> Thrown(TongyiError("RATE_LIMIT", 429, NoCause, TRUE))]
    ELSE IF o.what.tongyi /\ o.what.retryable /\ n < maxR
    THEN [next |-> "sleeping", out |-> o, delay |-> Backoff(n)]
    ELSE IF o.what.tongyi THEN [next |-> "threw", out |-> o, delay |-> 0]
    ELSE [next |-> "threw", delay |-> 0,
          out |-> Thrown(TongyiError("UNKNOWN_ERROR", 0, o.what, FALSE))]

\* one pass of the loop body of wrapAsync, for attempt n whose operation()
\* settled with o: return the value, sleep Backoff(n) and continue, rethrow a
\* TongyiError, or wrap anything else into UNKNOWN_ERROR
wrapAsyncStep(o, n, maxR) ==
    IF ~o.threw THEN [next |-> "returned", out |-> o, delay |-> 0]
    ELSE IF o.what.tongyi /\ o.what.retryable /\ n < maxR
    THEN [next |-> "sleeping", out |-> o, delay |-> Backoff(n)]
    ELSE IF o.what.tongyi THEN [next |-> "threw", out |-> o, delay |-> 0]
    ELSE [next |-> "threw", delay |-> 0,
          out |-> Thrown(TongyiError("UNKNOWN_ERROR", 0, o.what, FALSE))]

\* what operation() may settle with in the runs of the retry wrapper
RetryValues == {"r1", "r2"}
RetryStatuses == {304, 400, 401, 403, 404, 429, 500}
RetryCodes == {"InvalidApiKey", "Throttling", "InvalidParameter", "Unlisted"}
RetryOutcomes ==
    {Returned(v) : v \in RetryValues}
        \cup {Thrown(handleApiError(st)) : st \in RetryStatuses}
        \cup {Thrown(handleTongyiApiError(code)) : code \in RetryCodes}
        \cup {Thrown(PlainError("TypeError"))}

\* wrapAsync(operation, context, maxRetries) is called
RStart(m) ==
    /\ rpc = "idle"
    /\ rpc' = "calling"
    /\ maxRetries' = m
    /\ attempt' = 0
    /\ UNCHANGED <<now, cmVars, cbVars, plVars, fcVars, attempts, delays, rout>>

\* await operation() of the current attempt settles with o
ROperation(o) ==
    /\ rpc = "calling"
    /\ attempts' = Append(attempts, o)
    /\ LET r == wrapAsyncStep(o, attempt, maxRetries) IN
       /\ rpc' = r.next
       /\ IF r.next = "sleeping"
          THEN delays' = Append(delays, r.delay) /\ UNCHANGED rout
          ELSE rout' = r.out /\ UNCHANGED delays
    /\ UNCHANGED <<now, cmVars, cbVars, plVars, fcVars, maxRetries, attempt>>

\* the backoff sleep ends: continue with attempt + 1
RWake ==
    /\ rpc = "sleeping"
    /\ rpc' = "calling"
    /\ attempt' = attempt + 1
    /\ UNCHANGED <<now, cmVars, cbVars, plVars, fcVars, maxRetries, attempts, delays, rout>>

InitRT ==
    /\ now = 0
    /\ NewManager(DefaultMaxConcurrent)
    /\ NewBreaker([failureThreshold |-> 1, timeout |-> 1])
    /\ NoRetry /\ NoPoller /\ NoService

NextRT ==
    \/ \E m \in 0..MaxRetries : RStart(m)
    \/ \E o \in RetryOutcomes : ROperation(o)
    \/ RWake

SpecRT == InitRT /\ [][NextRT]_vars

----------------------------------------------------------------------------
(* Retry wrapper: properties *)

Last(q) == q[Len(q)]

Retryable(o) == o.threw /\ o.what.tongyi /\ o.what.retryable

\* C12 (no retry of non-retryable errors): when the first attempt fails with
\* a classified error whose retryable flag is false, the operation has been
\* invoked exactly once, no backoff sleep has occurred and that same error is
\* what wrapAsync throws, for every maxRetries >= 0.
C12_NoRetryOfNonRetryable ==
    (/\ Len(attempts) >= 1
     /\ attempts[1].threw /\ attempts[1].what.tongyi /\ ~attempts[1].what.retryable)
        => /\ Len(attempts) = 1
           /\ delays = <<>>
           /\ rpc = "threw"
           /\ rout = attempts[1]

\* C12 witness: with retries left, the first attempt failed with AUTH_ERROR
C12_Witness ==
    /\ maxRetries = MaxRetries
    /\ Len(attempts) = 1
    /\ attempts[1] = Thrown(handleApiError(401))
    /\ rpc = "threw"

\* C13 (bounded retries): the operation is invoked at most maxRetries + 1
\* times; when every attempt has failed with a retryable error and wrapAsync
\* has thrown, it was invoked exactly maxRetries + 1 times, exactly maxRetries
\* backoff sleeps occurred, and the error thrown is the last attempt's, with
\* its kind and retryable flag.
C13_BoundedRetries ==
    /\ Len(attempts) <= maxRetries + 1
    /\ Len(delays) <= maxRetries
    /\ (rpc = "threw" /\ \A i \in DOMAIN attempts : Retryable(attempts[i]))
          => /\ Len(attempts) = maxRetries + 1
             /\ Len(delays) = maxRetries
             /\ rout = Last(attempts)
             /\ rout.what.retryable

\* C13 witness: three retries allowed and all four attempts failed with
\* retryable errors, the last one a SERVER_ERROR
C13_Witness ==
    /\ maxRetries = 3
    /\ rpc = "threw"
    /\ Len(attempts) = 4
    /\ \A i \in DOMAIN attempts : Retryable(attempts[i])
    /\ rout.what.code = "SERVER_ERROR"

Schedule == <<1000, 2000, 4000, 8000, 10000>>

\* C14 (backoff schedule): the sleep after failed attempt n = 0, 1, 2, ...
\* lasts 1000, 2000, 4000, 8000, 10000, 10000, ... ms; the delays are
\* non-decreasing and never exceed 10000 ms.
C14_BackoffSchedule ==
    /\ \A i \in DOMAIN delays :
          delays[i] = IF i <= Len(Schedule) THEN Schedule[i] ELSE 10000
    /\ \A i, j \in DOMAIN delays : i <= j => delays[i] <= delays[j]
    /\ \A i \in DOMAIN delays : delays[i] <= 10000

\* C14 witness: five sleeps have occurred, the fifth at the cap
C14_Witness == Len(delays) = 5 /\ delays[5] = 10000 /\ delays[4] = 8000

\* C15 (retries invisible on eventual success): when the first k attempts
\* failed with retryable errors (k <= maxRetries) and attempt k + 1 succeeds,
\* wrapAsync returns that attempt's result and throws nothing.
C15_InvisibleRetries ==
    (Len(attempts) >= 1 /\ ~Last(attempts).threw)
        => /\ rpc = "returned"
           /\ rout = Last(attempts)
           /\ Len(attempts) <= maxRetries + 1
           /\ \A i \in 1..(Len(attempts) - 1) : Retryable(attempts[i])

\* C15 witness: two retryable failures, then the third attempt returned r2
C15_Witness ==
    /\ Len(attempts) = 3
    /\ Retryable(attempts[1]) /\ Retryable(attempts[2])
    /\ attempts[3] = Returned("r2")
    /\ rpc = "returned" /\ rout = Returned("r2")

----------------------------------------------------------------------------
(* TongyiWanxService.waitForTaskCompletion: the task poller *)

TASK_STATUS == {"PENDING", "RUNNING", "SUCCEEDED", "FAILED", "CANCELED", "UNKNOWN"}

\* a status test that also stops on UNKNOWN
IsTerminalOrUnknown(s) == s \in {"SUCCEEDED", "FAILED", "CANCELED", "UNKNOWN"}

\* currentStatus === SUCCEEDED || currentStatus === FAILED || currentStatus === CANCELED
IsTerminal(s) == s \in {"SUCCEEDED", "FAILED", "CANCELED"}

\* a loop body that returns whatever its first query answered
AfterQueryReturnsAny(resp) == "returned"

\* the loop body after a query has answered: return result, or sleep
AfterQuery(resp) == IF IsTerminal(resp.task_status) THEN "returned" ELSE "sleeping"

\* a loop test that lets the deadline instant itself pass
DeadlinePassedLate(t, start, maxWait) == t - start > maxWait

\* negation of the loop test Date.now() - startTime < maxWaitTime
DeadlinePassed(t, start, maxWait) == ~(t - start < maxWait)

\* a sleep during which the clock stands still
WakeTimeFrozen(t, interval, lag) == t

\* the clock when setTimeout(resolve, pollInterval) fires
WakeTime(t, interval, lag) == t + interval + lag

\* errors a queryTask call may fail with
QueryErrors == {handleApiError(401), handleApiError(500)}

\* the response of the n-th queryTask call, received at time t
Response(s, n, t) == [task_status |-> s, seq |-> n, at |-> t]

\* the error thrown after the loop
TimeoutError(elapsed, maxWait) ==
    TongyiError("TIMEOUT_ERROR", 0,
                [taskId |-> "task", elapsed |-> elapsed, maxWaitTime |-> maxWait], FALSE)

\* waitForTaskCompletion(taskId, maxWaitTime, pollInterval) is called
PStart(maxWait, interval) ==
    /\ ppc = "idle"
    /\ ppc' = "check"
    /\ pcfg' = [maxWaitTime |-> maxWait, pollInterval |-> interval]
    /\ startTime' = now
    /\ UNCHANGED <<now, cmVars, cbVars, rtVars, fcVars, snapshot, queries, sleeps, pout, seen>>

\* the while test; when it fails, elapsed is read and TIMEOUT_ERROR thrown
PCheck ==
    /\ ppc = "check"
    /\ IF DeadlinePassed(now, startTime, pcfg.maxWaitTime)
       THEN /\ ppc' = "timeout"
            /\ pout' = Thrown(TimeoutError(now - startTime, pcfg.maxWaitTime))
       ELSE /\ ppc' = "querying"
            /\ UNCHANGED pout
    /\ UNCHANGED <<now, cmVars, cbVars, rtVars, fcVars, pcfg, startTime, snapshot,
                   queries, sleeps, seen>>

\* await this.queryTask(taskId) answers with status s after d clock units
PQueryReturns(s, d) ==
    /\ ppc = "querying"
    /\ queries < MaxQueries
    /\ now' = now + d
    /\ queries' = queries + 1
    /\ LET resp == Response(s, queries + 1, now + d) IN
       /\ snapshot' = resp
       /\ seen' = Append(seen, resp)
       /\ ppc' = AfterQuery(resp)
       /\ IF AfterQuery(resp) = "returned"
          THEN pout' = Returned(resp)
          ELSE UNCHANGED pout
    /\ UNCHANGED <<cmVars, cbVars, rtVars, fcVars, pcfg, startTime, sleeps>>

\* a poller that catches the error of a query and polls again after the sleep
PQueryThrowsCaught(e, d) ==
    /\ ppc = "querying"
    /\ queries < MaxQueries
    /\ now' = now + d
    /\ queries' = queries + 1
    /\ ppc' = "sleeping"
    /\ UNCHANGED <<cmVars, cbVars, rtVars, fcVars, pcfg, startTime, snapshot, sleeps,
                   pout, seen>>

\* await this.queryTask(taskId) throws e after d clock units
PQueryThrows(e, d) ==
    /\ ppc = "querying"
    /\ queries < MaxQueries
    /\ now' = now + d
    /\ queries' = queries + 1
    /\ ppc' = "failed"
    /\ pout' = Thrown(e)
    /\ UNCHANGED <<cmVars, cbVars, rtVars, fcVars, pcfg, startTime, snapshot, sleeps, seen>>

\* the poll-interval sleep
PSleep(lag) ==
    /\ ppc = "sleeping"
    /\ now' = WakeTime(now, pcfg.pollInterval, lag)
    /\ sleeps' = sleeps + 1
    /\ ppc' = "check"
    /\ UNCHANGED <<cmVars, cbVars, rtVars, fcVars, pcfg, startTime, snapshot, queries,
                   pout, seen>>

InitPL ==
    /\ now = 0
    /\ NewManager(DefaultMaxConcurrent)
    /\ NewBreaker([failureThreshold |-> 1, timeout |-> 1])
    /\ NoRetry /\ NoPoller /\ NoService

NextPL ==
    \/ \E maxWait \in 0..MaxWait, interval \in 1..MaxPoll : PStart(maxWait, interval)
    \/ PCheck
    \/ \E s \in TASK_STATUS, d \in 0..MaxQueryTime : PQueryReturns(s, d)
    \/ \E e \in QueryErrors, d \in 0..MaxQueryTime : PQueryThrows(e, d)
    \/ \E lag \in 0..MaxLag : PSleep(lag)

SpecPL == InitPL /\ [][NextPL]_vars

\* every queryTask call settles and every sleep ends
SpecPLFair == SpecPL /\ WF_vars(NextPL)

----------------------------------------------------------------------------
(* Task poller: properties *)

Elapsed == now - startTime

\* C16 (poller returns only terminal snapshots): whenever
\* waitForTaskCompletion has returned normally, what it returned is the
\* response of its last query, and that response's task_status is SUCCEEDED,
\* FAILED or CANCELED, never PENDING, RUNNING or UNKNOWN.
C16_TerminalSnapshotsOnly ==
    ppc = "returned"
        => /\ ~pout.threw
           /\ pout.what = snapshot
           /\ pout.what = Last(seen)
           /\ pout.what.seq = queries
           /\ pout.what.task_status \in {"SUCCEEDED", "FAILED", "CANCELED"}

\* C16 witness: the second query answered FAILED and the call returned it
C16_Witness ==
    /\ ppc = "returned"
    /\ queries = 2
    /\ seen[1].task_status = "UNKNOWN"
    /\ pout.what.task_status = "FAILED"

\* no query has answered with a terminal status before elapsed time reached
\* maxWaitTime
NoTerminalInTime ==
    \A i \in DOMAIN seen :
        IsTerminal(seen[i].task_status) => seen[i].at - startTime >= pcfg.maxWaitTime

\* C17 as stated (poller timeout): a call that has ended without a query
\* throwing, and in which no query returned a terminal status before elapsed
\* time reached maxWaitTime, has failed with the Timeout error.
C17_TimeoutUnlessTerminalInTime ==
    (ppc \in {"returned", "timeout"} /\ NoTerminalInTime) => ppc = "timeout"

TimeoutPayload ==
    ppc = "timeout"
        => /\ pout.threw
           /\ pout.what.code = "TIMEOUT_ERROR"
           /\ pout.what.cause.taskId = "task"
           /\ pout.what.cause.maxWaitTime = pcfg.maxWaitTime
           /\ pout.what.cause.elapsed = Elapsed
           /\ pout.what.cause.elapsed >= pcfg.maxWaitTime
           /\ \A i \in DOMAIN seen : ~IsTerminal(seen[i].task_status)

TimeoutAtCheck ==
    (ppc = "check" /\ Elapsed >= pcfg.maxWaitTime /\ ppc' # ppc) => ppc' = "timeout"

NoQueryAfterTimeout ==
    ppc = "timeout" => (ppc' = "timeout" /\ queries' = queries /\ pout' = pout)

\* C17 amended (poller timeout): the deadline is tested only before each
\* query. A loop test made when elapsed >= maxWaitTime fails the call with
\* TIMEOUT_ERROR carrying {taskId, elapsed, maxWaitTime}, elapsed >=
\* maxWaitTime, every response seen so far being non-terminal; once it is
\* thrown no further query is issued.
C17_Timeout == []TimeoutPayload /\ [][TimeoutAtCheck /\ NoQueryAfterTimeout]_vars

\* C17 witness: two non-terminal responses, then the timeout, raised after
\* the deadline had been overrun
C17_Witness ==
    /\ ppc = "timeout"
    /\ queries = 2
    /\ pcfg.maxWaitTime > 0
    /\ pout.what.cause.elapsed > pcfg.maxWaitTime

StaysInLoop ==
    (/\ ppc = "querying" /\ queries' = queries + 1 /\ ppc' # "failed"
     /\ snapshot'.task_status \in {"UNKNOWN", "PENDING", "RUNNING"})
        => (ppc' = "sleeping" /\ pout' = pout)

SleepsThenTests ==
    (ppc = "sleeping" /\ ppc' # ppc)
        => /\ ppc' = "check"
           /\ sleeps' = sleeps + 1
           /\ now' >= now + pcfg.pollInterval

QueriesAgain ==
    (ppc = "check" /\ Elapsed < pcfg.maxWaitTime /\ ppc' # ppc) => ppc' = "querying"

\* C18 (UNKNOWN is non-terminal): a response with status UNKNOWN, like
\* PENDING and RUNNING, never ends polling: the poller sleeps pollInterval,
\* tests the deadline and, the deadline not having passed, queries again.
C18_UnknownKeepsPolling == [][StaysInLoop /\ SleepsThenTests /\ QueriesAgain]_vars

\* C18 witness: the first query answered UNKNOWN, the poller slept and a
\* second query has answered
C18_Witness ==
    /\ Len(seen) = 2
    /\ seen[1].task_status = "UNKNOWN"
    /\ sleeps >= 1
    /\ queries = 2

Ended == ppc \in {"returned", "timeout", "failed"}

\* C19 (poller termination): every query settling and every sleep ending,
\* each call of waitForTaskCompletion with a finite maxWaitTime and a positive
\* pollInterval eventually ends, by returning a terminal snapshot or by
\* failing; a call whose third query is the first to answer SUCCEEDED returns
\* it after exactly two poll-interval sleeps.
C19_PollerTerminates ==
    /\ (ppc # "idle") ~> Ended
    /\ [](ppc = "returned" => (IsTerminal(pout.what.task_status) /\ sleeps = queries - 1))
    /\ []((ppc = "returned" /\ queries = 3 /\ pout.what.task_status = "SUCCEEDED")
             => sleeps = 2)

\* C19 witness: PENDING, RUNNING, then SUCCEEDED on the third query
C19_Witness ==
    /\ ppc = "returned"
    /\ queries = 3
    /\ sleeps = 2
    /\ seen[1].task_status = "PENDING" /\ seen[2].task_status = "RUNNING"
    /\ pout.what.task_status = "SUCCEEDED"

----------------------------------------------------------------------------
(* TongyiWanxService: the facade methods over manager, breaker and retry *)

Clients == 1..MaxCalls

Methods == {"createTextToImageTask", "createImageEditTask", "queryTask"}

CreateMethods == {"createTextToImageTask", "createImageEditTask"}

\* a facade that admits every method at the default priority
PriorityOfDefault(m) == NORMAL

\* the priority each method hands to concurrencyManager.execute
PriorityOf(m) == IF m = "queryTask" THEN NORMAL ELSE HIGH

\* the maxRetries each method hands to wrapAsync
RetriesOf(m) == IF m = "queryTask" THEN QueryRetries ELSE CreateRetries

\* whether the method wraps its retry loop in circuitBreaker.execute
ThroughBreaker(m) == m = "createTextToImageTask"

\* what one fetch of the remote API, followed by the response checks, ends in
RemoteOutcomes ==
    {Returned("task"), Thrown(handleApiError(500)), Thrown(handleApiError(401))}

\* client c calls its method: concurrencyManager.execute(..., priority)
FCall(c) ==
    /\ c \in Clients
    /\ Acquire(c, PriorityOf(kind[c]))

\* the admitted operation starts: circuitBreaker.execute where the method has
\* it (a rejection throws CIRCUIT_BREAKER_OPEN), then wrapAsync's first attempt
FEnter(c) ==
    /\ pc[c] = "running"
    /\ stage[c] = "none"
    /\ IF ThroughBreaker(kind[c])
       THEN LET a == Admission(CB, now) IN
            /\ SetBreaker(a.breaker)
            /\ stage' = [stage EXCEPT ![c] = IF a.invoked THEN "calling" ELSE "threw"]
            /\ rejection' = IF a.invoked THEN rejection ELSE a.error
       ELSE /\ stage' = [stage EXCEPT ![c] = "calling"]
            /\ UNCHANGED <<state, failureCount, nextAttemptTime, rejection>>
    /\ UNCHANGED <<now, cmVars, rtVars, plVars, kind, att, config, call, admittedIn,
                   lastResult, streak, lastOp>>

\* a facade that puts circuitBreaker.execute inside the retry loop, around
\* each attempt
RecordedPerAttempt(m, r) == ThroughBreaker(m)

\* whether the breaker of method m records the step r of the retry loop: the
\* operation handed to circuitBreaker.execute is the whole wrapAsync call, it
\* settles when wrapAsync returns or throws
RecordedByBreaker(m, r) == ThroughBreaker(m) /\ r.next # "sleeping"

\* the remote call of the current attempt settles with o; when wrapAsync
\* returns or throws, the breaker of a guarded method records the outcome
FRemote(c, o) ==
    /\ stage[c] = "calling"
    /\ LET r == wrapAsyncStep(o, att[c], RetriesOf(kind[c])) IN
       /\ stage' = [stage EXCEPT ![c] = IF r.next = "sleeping" THEN "backoff" ELSE r.next]
       /\ IF RecordedByBreaker(kind[c], r)
          THEN SetBreaker(Settle(CB, r.out, config, now).breaker)
          ELSE UNCHANGED <<state, failureCount, nextAttemptTime>>
    /\ UNCHANGED <<now, cmVars, rtVars, plVars, kind, att, config, call, admittedIn,
                   lastResult, streak, lastOp, rejection>>

\* the backoff sleep of client c ends: next attempt
FWake(c) ==
    /\ stage[c] = "backoff"
    /\ stage' = [stage EXCEPT ![c] = "calling"]
    /\ att' = [att EXCEPT ![c] = @ + 1]
    /\ UNCHANGED <<now, cmVars, cbVars, rtVars, plVars, kind>>

\* a facade that puts the retry loop around execute, so that the permit is
\* given back whenever an attempt has failed and the call sleeps
FFinishOnSleep(c) ==
    /\ stage[c] \in {"backoff", "returned", "threw"}
    /\ Finish(c, IF stage[c] = "backoff" THEN "threw" ELSE stage[c])

\* the admitted operation has settled: execute()'s finally releases the permit
FFinish(c) ==
    /\ stage[c] \in {"returned", "threw"}
    /\ Finish(c, stage[c])

\* the clock advances; it is followed until the first cooldown can have elapsed
TickFC ==
    /\ now < MaxCooldown
    /\ now' = now + 1
    /\ UNCHANGED <<cmVars, cbVars, rtVars, plVars, fcVars>>

InitFC ==
    /\ now = 0
    /\ NewManager(DefaultMaxConcurrent)
    /\ NewBreaker([failureThreshold |-> MaxThreshold, timeout |-> MaxCooldown])
    /\ NoRetry /\ NoPoller
    /\ kind \in [Callers -> Methods \cup {"none"}]
    /\ \A c \in Callers : kind[c] = "none" <=> c \notin Clients
    /\ stage = [c \in Callers |-> "none"]
    /\ att = [c \in Callers |-> 0]

NextFC ==
    \/ \E c \in Clients : FCall(c)
    \/ \E c \in Clients : FEnter(c)
    \/ \E c \in Clients, o \in RemoteOutcomes : FRemote(c, o)
    \/ \E c \in Clients : FWake(c)
    \/ \E c \in Clients : FFinish(c)
    \/ TickFC

SpecFC == InitFC /\ [][NextFC]_vars

----------------------------------------------------------------------------
(* Facade: properties *)

\* the breaker is OPEN and its cooldown has not elapsed
Rejecting == state = "OPEN" /\ now < nextAttemptTime

\* client c starts the first remote call of its method in this step
ReachesRemote(c) == stage[c] = "none" /\ stage'[c] = "calling"

\* C20 (facade gating): a create-task call of either kind, text-to-image or
\* image-edit, that starts its work while the breaker is OPEN within its
\* cooldown does not reach the remote API; it got its permit from the
\* admission controller first.
C20_FacadeGating ==
    [][\A c \in Clients :
          (ReachesRemote(c) /\ kind[c] \in CreateMethods)
              => (pc[c] = "running" /\ ~Rejecting)]_vars

----------------------------------------------------------------------------
(* Error classification and the retry loop *)

\* the error attempt i failed with
ErrorOf(i) == attempts[i].what

\* the classification of HTTP statuses, as a table
ClassifiedByStatus ==
    \A i \in DOMAIN attempts :
        (attempts[i].threw /\ ErrorOf(i).tongyi /\ ErrorOf(i).statusCode # 0)
            => LET st == ErrorOf(i).statusCode
                   e == ErrorOf(i) IN
               /\ st = 429 => (e.code = "RATE_LIMIT" /\ e.retryable)
               /\ st >= 500 => (e.code = "SERVER_ERROR" /\ e.retryable)
               /\ st < 400 => (e.code = "NETWORK_ERROR" /\ e.retryable)
               /\ st \in {401, 403} => (e.code = "AUTH_ERROR" /\ ~e.retryable)
               /\ st = 400 => (e.code = "VALIDATION_ERROR" /\ ~e.retryable)

\* an attempt is followed by another one exactly when its error carries
\* retryable = true and attempts remain
ReadsFlagOnly ==
    \A i \in DOMAIN attempts :
        (attempts[i].threw /\ ErrorOf(i).tongyi)
            => /\ i < Len(attempts) => ErrorOf(i).retryable
               /\ (i = Len(attempts) /\ ErrorOf(i).retryable /\ i <= maxRetries)
                     => rpc \in {"sleeping", "calling"}

NeverRetriesAuthOrValidation ==
    \A i \in DOMAIN attempts :
        (attempts[i].threw /\ ErrorOf(i).code \in {"AUTH_ERROR", "VALIDATION_ERROR"})
            => (i = Len(attempts) /\ rpc = "threw" /\ rout = attempts[i])

----------------------------------------------------------------------------
(* Admission controller under resize *)

\* C22 (counter bound under resize): activeRequests <= maxConcurrent in every
\* reachable state of the admission controller, also after adjustConcurrency
\* has moved maxConcurrent up or down while permits are held.
C22_CounterBoundUnderResize == activeRequests <= maxConcurrent

----------------------------------------------------------------------------
(* Circuit breaker: transitions and counters *)

\* C23 (CLOSED only via probe): every step that moves the breaker into CLOSED,
\* a manual reset apart, is the success of the probe call admitted in
\* HALF_OPEN, taken from HALF_OPEN; in particular the success of a call
\* admitted while CLOSED that settles after the breaker has opened does not
\* move it from OPEN to CLOSED.
C23_ClosedOnlyViaProbe ==
    [][(state # "CLOSED" /\ state' = "CLOSED" /\ ~Reset)
          => /\ state = "HALF_OPEN"
             /\ \E k \in Slots : Succeed(k) /\ admittedIn[k] = "HALF_OPEN"]_vars

\* C24 (breaker state/counter invariant): the breaker is OPEN or HALF_OPEN if
\* and only if failureCount >= failureThreshold, CLOSED exactly when
\* failureCount < failureThreshold, and no step enters OPEN with failureCount
\* below the threshold.
C24_StateCounterInvariant ==
    /\ config.failureThreshold >= 1
    /\ state \in {"OPEN", "HALF_OPEN"} <=> failureCount >= config.failureThreshold
    /\ state = "CLOSED" <=> failureCount < config.failureThreshold

\* C24 witness: HALF_OPEN for the second time, the first probe having failed
\* and taken the counter above the threshold
C24_Witness ==
    /\ state = "HALF_OPEN"
    /\ failureCount = config.failureThreshold + 1
    /\ \E k \in Slots : call[k] = "inflight" /\ admittedIn[k] = "HALF_OPEN"

\* C25 (probe failure re-opens): when the call admitted in HALF_OPEN fails,
\* the breaker becomes OPEN again and nextAttemptTime is the time of that
\* failure plus the cooldown.
C25_ProbeFailureReopens ==
    [][\A k \in Slots :
          (admittedIn[k] = "HALF_OPEN" /\ Fail(k))
              => (state' = "OPEN" /\ nextAttemptTime' = now + config.timeout)]_vars

SuccessZeroes == \A k \in Slots : Succeed(k) => (failureCount' = 0 /\ streak' = 0)

OpensOnlyOnStreak ==
    (state # "OPEN" /\ state' = "OPEN") => streak' >= config.failureThreshold

CountsTheStreak == failureCount = streak

\* C26 (consecutive-failure counting): every successful execute sets
\* failureCount to 0, so the breaker opens only on a run of failureThreshold
\* failures with no success among them; while fewer failures than that have
\* happened since the latest success the breaker is not OPEN.
C26_ConsecutiveCounting ==
    /\ [](CountsTheStreak /\ (streak < config.failureThreshold => state # "OPEN"))
    /\ [][SuccessZeroes /\ OpensOnlyOnStreak]_vars

\* C26 witness: threshold 2; one call has succeeded, another has failed since
\* (or before) and the breaker is CLOSED with one failure counted
C26_Witness ==
    /\ config.failureThreshold = 2
    /\ state = "CLOSED" /\ failureCount = 1
    /\ lastResult[1] = "failed" /\ lastResult[2] = "ok"
    /\ \A k \in Slots : call[k] = "idle"

\* C27 (rejection changes nothing): an execute call rejected because the
\* breaker is OPEN and now < nextAttemptTime leaves state, failureCount and
\* nextAttemptTime as they were, its operation is not invoked, and the
\* CIRCUIT_BREAKER_OPEN error it throws has retryable = false.
C27_RejectionChangesNothing ==
    [][\A k \in Slots :
          (state = "OPEN" /\ now < nextAttemptTime /\ Call(k))
              => /\ UNCHANGED <<state, failureCount, nextAttemptTime>>
                 /\ call'[k] = "idle"
                 /\ rejection'.code = "CIRCUIT_BREAKER_OPEN"
                 /\ rejection'.tongyi /\ ~rejection'.retryable]_vars

\* C27 witness: a call was rejected after the clock had moved inside the
\* cooldown; the breaker is as the opening failure left it
C27_Witness ==
    /\ state = "OPEN" /\ now > 0 /\ now < nextAttemptTime
    /\ nextAttemptTime = config.timeout
    /\ failureCount = config.failureThreshold
    /\ rejection = CircuitOpenError
    /\ \E k \in Slots : lastResult[k] = "CircuitOpen"

LeavesOpenOnCall ==
    \A k \in Slots :
        (state = "OPEN" /\ now >= nextAttemptTime /\ Call(k))
            => (state' = "HALF_OPEN" /\ call'[k] = "inflight")

\* C28 (the breaker has no terminal state): the clock advancing, execute
\* calls arriving and the operation eventually succeeding, the breaker reaches
\* CLOSED again from every reachable state; OPEN is left as soon as a call
\* arrives with now >= nextAttemptTime.
C28_NoTerminalState ==
    /\ []<>(state = "CLOSED")
    /\ (state = "OPEN") ~> (state # "OPEN")
    /\ [][LeavesOpenOnCall]_vars

\* C28 witness: the breaker is CLOSED again after two cooldowns, the first
\* probe having failed and the second succeeded
C28_Witness ==
    /\ state = "CLOSED" /\ failureCount = 0
    /\ nextAttemptTime = 2 * config.timeout
    /\ now >= nextAttemptTime
    /\ \E k \in Slots : lastResult[k] = "ok" /\ admittedIn[k] = "HALF_OPEN"

\* C29 (unknown errors are wrapped, not retried): when the operation throws
\* something that is not a TongyiError, wrapAsync invokes it no further,
\* whatever attempts remain, and throws an UNKNOWN_ERROR with retryable =
\* false whose originalError is the thrown value.
C29_UnknownWrappedNotRetried ==
    \A i \in DOMAIN attempts :
        (attempts[i].threw /\ ~ErrorOf(i).tongyi)
            => /\ i = Len(attempts)
               /\ Len(delays) = i - 1
               /\ rpc = "threw"
               /\ rout.threw /\ rout.what.tongyi
               /\ rout.what.code = "UNKNOWN_ERROR"
               /\ ~rout.what.retryable
               /\ rout.what.cause = ErrorOf(i)

\* C29 witness: after one retried failure the second attempt threw a
\* TypeError with three attempts left
C29_Witness ==
    /\ maxRetries = 4
    /\ Len(attempts) = 2
    /\ Retryable(attempts[1])
    /\ attempts[2] = Thrown(PlainError("TypeError"))
    /\ rpc = "threw"
    /\ rout.what.cause = PlainError("TypeError")

\* C30 (the poller always starts with a query): every call of
\* waitForTaskCompletion has issued at least one status query before it fails
\* with the Timeout error, for every maxWaitTime, 0 included, and a call whose
\* first query answers a terminal status returns it without having slept.
C30_StartsWithQuery ==
    /\ ppc = "timeout" => queries >= 1
    /\ (ppc = "returned" /\ queries = 1) => sleeps = 0

\* ---------------------------------------------------------------------------
\* Counter accuracy of the admission controller
\* ---------------------------------------------------------------------------

\* C31: in every reachable state, under acquire, paired release, the timeout
\* sweep, destroy and adjustConcurrency, activeRequests equals the number of
\* callers whose acquire was granted and who have not yet released
C31_CounterAccuracy ==
    activeRequests = Cardinality(Holders)

\* an arriving acquire is queued whenever a request is already waiting
QueuesBehindWaiters ==
    \A c \in Callers :
        (pc[c] = "idle" /\ pc'[c] # "idle" /\ priorityQueue # <<>>)
            => pc'[c] = "queued"

\* C32: with paired releases a non-empty queue implies
\* activeRequests >= maxConcurrent in every reachable state (no request stays
\* queued while a permit is free), and an arriving acquire never takes a
\* permit while a request is queued
C32_WorkConservation ==
    /\ [](priorityQueue # <<>> => activeRequests >= maxConcurrent)
    /\ [][QueuesBehindWaiters]_vars

\* C32 witness: a holder released while two requests waited; the head of the
\* queue took over the permit, the other one still waits at full capacity
C32_Witness ==
    /\ \E c \in Callers : pc[c] = "done" /\ releases[c] = 1
    /\ \E c \in Callers : pc[c] = "running" /\ c > maxConcurrent
    /\ priorityQueue # <<>>
    /\ activeRequests = maxConcurrent

\* ---------------------------------------------------------------------------
\* The admission controller under fair scheduling: a finite set of callers
\* each run execute(op) once, every op terminates, the limit is fixed
\* ---------------------------------------------------------------------------

\* caller c enters execute(op)
Arrive(c) ==
    \E p \in LOW..CRITICAL : Acquire(c, p)

\* the operation of caller c settles and the finally block releases
Settles(c) ==
    \E o \in {"returned", "threw"} : Finish(c, o)

NextCMLive ==
    \E c \in Callers : Arrive(c) \/ Settles(c)

SpecCMLive ==
    /\ InitCM
    /\ [][NextCMLive]_vars
    /\ \A c \in Callers : WF_vars(Arrive(c)) /\ WF_vars(Settles(c))

\* C33: with a fixed maxConcurrent >= 1 and finitely many callers that each
\* run execute(op) once with a terminating op, under fair scheduling every
\* caller is eventually granted a permit and the system ends with
\* activeRequests = 0 and an empty queue
C33_NoLostWakeups ==
    /\ \A c \in Callers : <>(pc[c] = "running")
    /\ <>[](activeRequests = 0 /\ priorityQueue = <<>>
            /\ \A c \in Callers : pc[c] = "done" /\ releases[c] = 1)

\* C33 witness: all callers, more of them than there are permits, have been
\* granted and have finished, and the controller is idle again
C33_Witness ==
    /\ \A c \in Callers : pc[c] = "done" /\ result[c] \in {"returned", "threw"}
    /\ activeRequests = 0
    /\ priorityQueue = <<>>

\* ---------------------------------------------------------------------------
\* Requests evicted from the queue
\* ---------------------------------------------------------------------------

\* the outcomes of execute() for a call whose acquire was rejected
Evictions == {"QueueTimeout", "Destroyed"}

\* the callers whose queued acquire is rejected in this step
EvictedNow == {c \in Callers : result[c] \notin Evictions /\ result'[c] \in Evictions}

\* C34: when a queued acquire made by execute is rejected by the timeout sweep
\* or by destroy, execute propagates the rejection without invoking the
\* operation and without calling release: the caller goes from queued to done
\* with no release, activeRequests is not decremented and no permit moves
C34_EvictedNeverRelease ==
    /\ [][EvictedNow # {} =>
            /\ \A c \in EvictedNow :
                  pc[c] = "queued" /\ pc'[c] = "done" /\ releases'[c] = 0
            /\ activeRequests' = activeRequests
            /\ releases' = releases
            /\ GrantedNow = {}]_vars
    /\ [](\A c \in Callers :
            result[c] \in Evictions => pc[c] = "done" /\ releases[c] = 0)

\* C34 witness: one call was rejected by the sweep and another by destroy
\* while the permit holders were still running
C34_Witness ==
    /\ \E c \in Callers : result[c] = "QueueTimeout"
    /\ \E c \in Callers : result[c] = "Destroyed"
    /\ activeRequests = maxConcurrent
    /\ Cardinality(Holders) = maxConcurrent

----------------------------------------------------------------------------
(* Facade: permits, retries and the breaker *)

\* client c is inside wrapAsync: an attempt is in flight or it sleeps in backoff
InRetryLoop(c) == stage[c] \in {"calling", "backoff"}

\* client c goes to sleep in backoff, or wakes up from it, in this step
BackoffStep(c) == stage'[c] # stage[c] /\ "backoff" \in {stage[c], stage'[c]}

\* C35: a facade call acquires its permit once and keeps it through all retry
\* attempts and backoff sleeps of wrapAsync: while it is in the retry loop it
\* is a permit holder counted in activeRequests, it has released nothing, and
\* the steps into and out of a backoff sleep change nothing in the admission
\* controller; a queued request is granted only when a call that has settled
\* releases its permit
C35_PermitHeldAcrossRetries ==
    /\ [](/\ \A c \in Clients : InRetryLoop(c) => (pc[c] = "running" /\ releases[c] = 0)
          /\ activeRequests = Cardinality(Holders))
    /\ [][\A c \in Clients : BackoffStep(c) => UNCHANGED cmVars]_vars
    /\ [][\A d \in GrantedNow : pc[d] = "queued" =>
             \E c \in Clients : /\ stage[c] \in {"returned", "threw"}
                                /\ pc[c] = "running" /\ pc'[c] = "done"]_vars

\* C35 witness: both permits are held by calls that have already retried, one
\* of them sleeping in backoff before its third attempt, while a third call
\* waits in the queue
C35_Witness ==
    /\ \E c \in Clients : stage[c] = "backoff" /\ att[c] = 1 /\ pc[c] = "running"
    /\ \E c \in Clients : stage[c] = "calling" /\ att[c] >= 1 /\ pc[c] = "running"
    /\ activeRequests = maxConcurrent
    /\ priorityQueue # <<>>

----------------------------------------------------------------------------
(* waitForTaskCompletion over the admission controller: every queryTask call *)
(* of the poller is one execute() of the shared ConcurrencyManager, next to  *)
(* the calls of other users of the service                                   *)

\* the execute() calls that are queries of the poller
PollQueries == {c \in Callers : kind[c] = "queryTask"}

\* the queries the poller has issued so far, and the one still in execute()
Issued == {c \in PollQueries : pc[c] # "idle"}

Pending == {c \in PollQueries : pc[c] \in {"queued", "running"}}

Newest(S) == CHOOSE c \in S : \A d \in S : d <= c

\* the error a query that ended with outcome r rejects with: the error of the
\* retry loop, or the plain Error of the sweep or of destroy
QueryFailures(r) == IF r = "threw" THEN QueryErrors ELSE {PlainError(r)}

\* the poller calls queryTask: concurrencyManager.execute(..., NORMAL)
PMQuery(c) ==
    /\ ppc = "querying"
    /\ kind[c] = "queryTask"
    /\ Cardinality(Issued) = queries
    /\ queries < MaxQueries
    /\ Acquire(c, PriorityOf(kind[c]))

\* another user of the service calls a create method
PMOther(c) ==
    /\ kind[c] \in CreateMethods
    /\ Acquire(c, PriorityOf(kind[c]))

\* the operation of an admitted call settles; execute() releases its permit
PMSettle(c, o) == Finish(c, o)

\* the promise of the poller's current queryTask call has settled
Answered == Cardinality(Issued) = queries + 1 /\ Pending = {}

\* a poller that reads the response while the query still holds its permit
PMReturnsHolding(s, d) ==
    /\ Cardinality(Issued) = queries + 1
    /\ \E c \in Pending : pc[c] = "running"
    /\ PQueryReturns(s, d)

\* the poller's await of queryTask resumes with a response
PMReturns(s, d) ==
    /\ Answered
    /\ result[Newest(Issued)] = "returned"
    /\ PQueryReturns(s, d)

\* the poller's await of queryTask resumes with the rejection of the query
PMThrows(e, d) ==
    /\ Answered
    /\ result[Newest(Issued)] # "returned"
    /\ e \in QueryFailures(result[Newest(Issued)])
    /\ PQueryThrows(e, d)

\* the clock advances while the poller's query waits in the queue; it is
\* followed until the sweep can evict the query
PMWait ==
    /\ \E c \in Pending : pc[c] = "queued" /\ now - ItemOf(c).timestamp <= MaxTimeout
    /\ now' = now + 1
    /\ UNCHANGED <<cmVars, cbVars, rtVars, plVars, fcVars>>

InitPM ==
    /\ now = 0
    /\ \E m \in {1, DefaultMaxConcurrent} : NewManager(m)
    /\ NewBreaker([failureThreshold |-> 1, timeout |-> 1])
    /\ NoRetry /\ NoPoller
    /\ kind \in [Callers -> {"queryTask", "createTextToImageTask", "none"}]
    /\ \A c \in Callers : kind[c] = "none" <=> c \notin Clients
    /\ stage = [c \in Callers |-> "none"]
    /\ att = [c \in Callers |-> 0]

NextPM ==
    \/ \E maxWait \in 0..MaxWait, interval \in 1..MaxPoll : PStart(maxWait, interval)
    \/ PCheck
    \/ \E c \in Clients : PMQuery(c)
    \/ \E c \in Clients : PMOther(c)
    \/ \E c \in Clients, o \in {"returned", "threw"} : PMSettle(c, o)
    \/ \E s \in TASK_STATUS, d \in 0..MaxQueryTime : PMReturns(s, d)
    \/ \E e \in QueryErrors \cup {PlainError(r) : r \in Evictions},
          d \in 0..MaxQueryTime : PMThrows(e, d)
    \/ \E lag \in 0..MaxLag : PSleep(lag)
    \/ \E timeoutMs \in 0..MaxTimeout : Cleanup(timeoutMs)
    \/ Destroy
    \/ PMWait

SpecPM == InitPM /\ [][NextPM]_vars

\* every operation that was admitted settles (the remote call answers or its
\* retries run out)
SpecPMFair ==
    /\ SpecPM
    /\ \A c \in Clients : WF_vars(\E o \in {"returned", "threw"} : PMSettle(c, o))

\* C36: each status query of waitForTaskCompletion acquires and releases its
\* own permit: at most one query of the poller is in execute() at a time, a
\* query that ran has released exactly once, and whenever the poller is not
\* awaiting queryTask (in particular during the pollInterval sleep) it holds
\* no permit and no place in the queue; a permit taken by a query is given
\* back once the query settles, so polling never occupies a permit for good
HoldsOnlyWhileQuerying ==
    /\ ppc # "querying" => Pending = {}
    /\ Cardinality(Pending) <= 1
    /\ \A c \in PollQueries :
          /\ result[c] \in {"returned", "threw"} => releases[c] = 1
          /\ pc[c] = "running" => releases[c] = 0

QueryFailed == Answered /\ result[Newest(Issued)] # "returned"

\* C37: if a status query fails (a non-retryable error, exhausted retries or a
\* queue eviction), waitForTaskCompletion rejects with that error at once,
\* whether or not the deadline has been reached, and issues no further query
C37_StopsOnQueryFailure ==
    /\ [][(ppc = "querying" /\ QueryFailed /\ ppc' # ppc) =>
             /\ ppc' = "failed"
             /\ pout'.threw
             /\ pout'.what \in QueryFailures(result[Newest(Issued)])]_vars
    /\ [][ppc = "failed" =>
             /\ ppc' = "failed" /\ pout' = pout
             /\ queries' = queries /\ sleeps' = sleeps
             /\ Issued' = Issued]_vars
    /\ [](ppc = "failed" =>
             /\ Cardinality(Issued) = queries /\ Pending = {}
             /\ result[Newest(Issued)] # "returned"
             /\ pout.threw
             /\ pout.what \in QueryFailures(result[Newest(Issued)]))

\* C37 witness: the second query of the poller was evicted from the queue by
\* the sweep; the poller has failed with that error before its deadline
C37_Witness ==
    /\ ppc = "failed"
    /\ queries = 2
    /\ result[Newest(Issued)] = "QueueTimeout"
    /\ pout = Thrown(PlainError("QueueTimeout"))
    /\ now - startTime < pcfg.maxWaitTime

\* client c, a guarded create-task call, leaves the attempt in flight
AttemptEnds(c) ==
    /\ ThroughBreaker(kind[c])
    /\ stage[c] = "calling"
    /\ stage'[c] # "calling"

\* C38: the retry wrapper runs inside CircuitBreaker.execute, so one guarded
\* create-task call changes failureCount only when its whole retry loop has
\* settled: an attempt that fails and is retried leaves the breaker as it is,
\* a call that ends by throwing adds exactly 1 however many attempts it made,
\* and a call that succeeds, at the first attempt or on a retry, sets
\* failureCount to 0; nothing else changes failureCount
C38_CountsLogicalCalls ==
    /\ [][\A c \in Clients : AttemptEnds(c) =>
             /\ stage'[c] = "backoff" =>
                   (failureCount' = failureCount /\ state' = state)
             /\ stage'[c] = "threw" => failureCount' = failureCount + 1
             /\ stage'[c] = "returned" => failureCount' = 0]_vars
    /\ [][failureCount' # failureCount =>
             \E c \in Clients : AttemptEnds(c) /\ stage'[c] \in {"returned", "threw"}]_vars

\* C38 witness: one guarded call threw after using both of its retries and
\* the count went up by one; a second guarded call failed transiently, then
\* succeeded on a retry and reset the count to 0
C38_Witness ==
    \E c, d \in Clients :
        /\ kind[c] = "createTextToImageTask" /\ kind[d] = "createTextToImageTask"
        /\ stage[c] = "threw" /\ att[c] = CreateRetries
        /\ stage[d] = "returned" /\ att[d] >= 1
        /\ failureCount = 0
        /\ state = "CLOSED"

----------------------------------------------------------------------------
(* The facade configured with MAX_CONCURRENT_REQUESTS = 1: with one permit, *)
(* two of the three calls can wait in the queue together                    *)

InitFCSerial ==
    /\ now = 0
    /\ NewManager(1)
    /\ NewBreaker([failureThreshold |-> MaxThreshold, timeout |-> MaxCooldown])
    /\ NoRetry /\ NoPoller
    /\ kind \in [Callers -> Methods \cup {"none"}]
    /\ \A c \in Callers : kind[c] = "none" <=> c \notin Clients
    /\ stage = [c \in Callers |-> "none"]
    /\ att = [c \in Callers |-> 0]

SpecFCSerial == InitFCSerial /\ [][NextFC]_vars

\* the queued calls of the create methods, and the queued status queries
QueuedCreates == {c \in Clients : pc[c] = "queued" /\ kind[c] \in CreateMethods}

QueuedQueries == {c \in Clients : pc[c] = "queued" /\ kind[c] = "queryTask"}

\* C39: the service admits create-task calls at HIGH priority and status
\* queries at NORMAL priority; whenever a create-task call and a query are
\* both queued, the next grant goes to a create-task call regardless of the
\* arrival order, and a queued query is granted only when no create-task call
\* is queued
C39_CreatesOutrankQueries ==
    /\ [](\A i \in DOMAIN priorityQueue :
            priorityQueue[i].priority =
                IF kind[priorityQueue[i].id] = "queryTask" THEN NORMAL ELSE HIGH)
    /\ [][\A d \in GrantedNow :
             (d \in QueuedQueries => QueuedCreates = {})
          /\ ((pc[d] = "queued" /\ QueuedCreates # {}) => d \in QueuedCreates)]_vars

\* C39 witness: a query arrived before a create-task call and both waited;
\* the permit was released and went to the create-task call, the query still
\* waits
C39_Witness ==
    \E q, c \in Clients :
        /\ q < c
        /\ kind[q] = "queryTask" /\ pc[q] = "queued"
        /\ kind[c] \in CreateMethods /\ pc[c] = "running"
        /\ \E h \in Clients : h < q /\ pc[h] = "done"

====
